---- MODULE Spec2Model ----
(***************************************************************************)
(* A model of the rag-doc-intel core:                                      *)
(*   - doc_to_chunks      (src/src/parser/normalize_layout.py)             *)
(*   - index_chunks, delete_all_documents (src/src/indexer/...)            *)
(*   - reindex_document   (src/src/services/document_manager.py)           *)
(*   - answer_with_search (src/src/query/search_query.py)                  *)
(* Text is a sequence of one-character strings, so that strip, join,       *)
(* rfind, slicing and the blank-line regex are computed character by       *)
(* character, as Python computes them.                                     *)
(***************************************************************************)
EXTENDS Integers, Sequences, FiniteSets, TLC

VARIABLES
    \* ---- doc_to_chunks: the arguments of the call
    result, doc_id, source_file, max_chars,
    \* ---- doc_to_chunks: its locals and its position
    pc, page_blocks, bi, text, parts, chunks,
    \* ---- the calls made so far and what the previous call returned
    run, prev_doc_id, prev_chunks,
    \* ---- table rendering on its own: the cells as listed, the rendered text,
    \*      the text rendered for the first listing
    tcells, tpc, table_text, first_table_text,
    \* ---- answer_with_search: arguments, locals, position, the number of
    \*      generation calls made, the returned dict
    question, chat_history, results, history_text, apc, ai, context_blocks,
    citation_blocks, user_prompt, generated, gen_calls, ret,
    \* ---- the search index and the operations on it: the operation running
    \*      and its caller, its position, the arguments and locals of
    \*      index_chunks, what it returned, the failures of the services
    \*      during the call, and the number of operations started
    index, iop, ipc, ichunks, idocs, ik, iret, embed_failed, upsert_failed,
    store_error, rold, rret, nops,
    \* ---- the document manager: the blobs in storage with their metadata,
    \*      the search index, the last operation, the number of operations,
    \*      the number of document ids generated, and the document id of the
    \*      blob the last upload overwrote
    blobs, dindex, dop, dn, nuuid, overwritten

chunkVars == <<result, doc_id, source_file, max_chars, pc, page_blocks, bi,
               text, parts, chunks, run, prev_doc_id, prev_chunks>>

tableVars == <<tcells, tpc, table_text, first_table_text>>

ansVars == <<question, chat_history, results, history_text, apc, ai,
             context_blocks, citation_blocks, user_prompt, generated, gen_calls, ret>>

idxVars == <<index, iop, ipc, ichunks, idocs, ik, iret, embed_failed,
             upsert_failed, store_error, rold, rret, nops>>

docVars == <<blobs, dindex, dop, dn, nuuid, overwritten>>

vars == <<chunkVars, tableVars, ansVars, idxVars, docVars>>

exceptChunk == <<tableVars, ansVars, idxVars, docVars>>
exceptTable == <<chunkVars, ansVars, idxVars, docVars>>
exceptAns == <<chunkVars, tableVars, idxVars, docVars>>
exceptIdx == <<chunkVars, tableVars, ansVars, docVars>>
exceptDoc == <<chunkVars, tableVars, ansVars, idxVars>>

(***************************************************************************)
(* Bounds of the model.                                                    *)
(***************************************************************************)
MaxPages == 2
MaxMaxChars == 22
MaxStuck == 2
MaxRuns == 2
MaxCells == 3
MaxHits == 3
MaxChunks == 2
MaxOps == 3
\* the page size of delete_all_documents' search (top=1000), scaled down so
\* that an index can hold more documents than one page
SearchTop == 3

(***************************************************************************)
(* Python text primitives.                                                 *)
(***************************************************************************)
NL == "\n"

\* An optional value is a sequence of at most one element: None is <<>>.
None == <<>>
Some(x) == <<x>>

Min(a, b) == IF a < b THEN a ELSE b

\* str.strip() with no argument removes whitespace; the alphabet of the model
\* has two whitespace characters.
IsSpace(c) == c \in {" ", NL}

RECURSIVE LStrip(_)
LStrip(s) == IF s # <<>> /\ IsSpace(Head(s)) THEN LStrip(Tail(s)) ELSE s

RECURSIVE RStrip(_)
RStrip(s) ==
    IF s # <<>> /\ IsSpace(s[Len(s)]) THEN RStrip(SubSeq(s, 1, Len(s) - 1)) ELSE s

Strip(s) == RStrip(LStrip(s))

\* sep.join(xs)
RECURSIVE Join(_, _)
Join(sep, xs) ==
    IF xs = <<>> THEN <<>>
    ELSE IF Len(xs) = 1 THEN xs[1]
    ELSE xs[1] \o sep \o Join(sep, Tail(xs))

DigitChar == <<"0", "1", "2", "3", "4", "5", "6", "7", "8", "9">>

\* str(n) of a non-negative int, as an f-string renders it
RECURSIVE Digits(_)
Digits(n) ==
    IF n < 10 THEN <<DigitChar[n + 1]>>
    ELSE Digits(n \div 10) \o <<DigitChar[(n % 10) + 1]>>

\* Length of the run of newlines that s starts with.
RECURSIVE NLRun(_)
NLRun(s) == IF s # <<>> /\ Head(s) = NL THEN 1 + NLRun(Tail(s)) ELSE 0

\* re.sub(r"\n{3,}", "\n\n", s)
RECURSIVE CollapseBlankLines(_)
CollapseBlankLines(s) ==
    IF s = <<>> THEN <<>>
    ELSE IF Head(s) # NL THEN <<Head(s)>> \o CollapseBlankLines(Tail(s))
    ELSE LET k == NLRun(s)
         IN  (IF k >= 3 THEN <<NL, NL>> ELSE SubSeq(s, 1, k))
                 \o CollapseBlankLines(SubSeq(s, k + 1, Len(s)))

\* s.rfind("\n", 0, end): the highest 0-based index below end (and below
\* len(s)) that holds a newline, -1 when there is none.
RFindNL(s, end) ==
    LET hits == {j \in 1..Min(end, Len(s)) : s[j] = NL}
    IN  IF hits = {} THEN -1
        ELSE (CHOOSE j \in hits : \A k \in hits : k <= j) - 1

\* s[:k] and s[k:] for 0 <= k
Prefix(s, k) == SubSeq(s, 1, Min(k, Len(s)))
SuffixPastCut(s, k) == SubSeq(s, k + 2, Len(s))
Suffix(s, k) == SubSeq(s, k + 1, Len(s))

\* The elements of a set of integers in ascending order: sorted(keys)
RECURSIVE Sorted(_)
Sorted(S) ==
    IF S = {} THEN <<>>
    ELSE LET m == CHOOSE x \in S : \A y \in S : x <= y
         IN  <<m>> \o Sorted(S \ {m})

(***************************************************************************)
(* String literals of normalize_layout.py.                                 *)
(***************************************************************************)
S_PAGE == <<"P", "A", "G", "E", " ">>
S_PARAGRAPHS == <<"P", "A", "R", "A", "G", "R", "A", "P", "H", "S", ":">>
S_TABLE == <<"T", "A", "B", "L", "E", ":">>
S_KV == <<"K", "E", "Y", "-", "V", "A", "L", "U", "E", " ", "P", "A", "I", "R", "S", ":">>
S_CELLSEP == <<" ", "|", " ">>
S_COLON == <<":", " ">>
S_NONE == <<"N", "o", "n", "e">>
S_P == <<"-", "p">>
S_C == <<"-", "c">>
S_PAGETITLE == <<"P", "a", "g", "e", " ">>
S_NL == <<NL>>
S_NLNL == <<NL, NL>>

(***************************************************************************)
(* doc_to_chunks, steps 1-5: the page blocks of a structural result.       *)
(* A structural result is                                                  *)
(*   [pages      : Seq([page_number, lines : Seq([content : optional])]), *)
(*    paragraphs : Seq([content, bounding_regions : Seq(page number)]),    *)
(*    tables     : Seq([cells : Seq([row_index, column_index, content]),   *)
(*                      bounding_regions]),                                *)
(*    key_value_pairs : Seq([key : optional [content, bounding_regions],   *)
(*                           value : optional [content]])]                 *)
(* where a content of a key or value is itself optional.                   *)
(***************************************************************************)

\* lines 47-50: text += ln.content.strip() + "\n" for every line; a page
\* without a lines attribute is a page whose lines are empty (line 48)
RECURSIVE LinesText(_)
LinesText(lines) ==
    IF lines = <<>> THEN <<>>
    ELSE Strip(Head(lines).content[1]) \o S_NL \o LinesText(Tail(lines))

\* line 50: ln.content.strip() raises AttributeError when ln.content is None
LineRaises(res) ==
    \E i \in 1..Len(res.pages) :
        \E j \in 1..Len(res.pages[i].lines) : res.pages[i].lines[j].content = None

\* d[k] = v on an insertion-ordered dict, held as a sequence of entries
DictPutAppend(d, k, v) == Append(d, [key |-> k, val |-> v])
DictPut(d, k, v) ==
    IF \E i \in 1..Len(d) : d[i].key = k
    THEN [i \in 1..Len(d) |-> IF d[i].key = k THEN [key |-> k, val |-> v] ELSE d[i]]
    ELSE Append(d, [key |-> k, val |-> v])

\* lines 45-51: page_text_map
RECURSIVE PageTextMapFrom(_, _)
PageTextMapFrom(d, pages) ==
    IF pages = <<>> THEN d
    ELSE PageTextMapFrom(
             DictPut(d, Head(pages).page_number, Strip(LinesText(Head(pages).lines))),
             Tail(pages))

PageTextMapReversed(res) ==
    LET m == PageTextMapFrom(<<>>, res.pages)
    IN  [i \in 1..Len(m) |-> m[Len(m) + 1 - i]]
PageTextMap(res) == PageTextMapFrom(<<>>, res.pages)

\* lines 61, 84: bounding_regions[0].page_number if bounding_regions else None
FirstRegionPage(regions) == IF regions # <<>> THEN Some(regions[1]) ELSE None

\* lines 58-66: paragraphs
Paragraph(p) == [text |-> p.content, page |-> FirstRegionPage(p.bounding_regions)]

Paragraphs(res) == [i \in 1..Len(res.paragraphs) |-> Paragraph(res.paragraphs[i])]

\* lines 74-77: rows[row][col] = content, the last cell listed for an address wins
CellAddresses(cells) ==
    {<<cells[i].row_index, cells[i].column_index>> : i \in 1..Len(cells)}

CellAt(cells, r, c) ==
    LET hits == {i \in 1..Len(cells) :
                     cells[i].row_index = r /\ cells[i].column_index = c}
    IN  cells[CHOOSE i \in hits : \A j \in hits : j <= i].content

RowKeys(cells) == {a[1] : a \in CellAddresses(cells)}
ColKeys(cells, r) == {a[2] : a \in {b \in CellAddresses(cells) : b[1] = r}}

\* line 81: " | ".join(rows[r][c] for c in sorted(rows[r].keys()))
RowTextAsListed(cells, r) ==
    LET on == SelectSeq(cells, LAMBDA c : c.row_index = r)
    IN  Join(S_CELLSEP, [i \in 1..Len(on) |-> on[i].content])
RowText(cells, r) ==
    LET cols == Sorted(ColKeys(cells, r))
    IN  Join(S_CELLSEP, [i \in 1..Len(cols) |-> CellAt(cells, r, cols[i])])

\* lines 79-82: "TABLE:\n" then row_text + "\n" for every row in sorted order
RECURSIVE RowsText(_, _)
RowsText(cells, rowseq) ==
    IF rowseq = <<>> THEN <<>>
    ELSE RowText(cells, Head(rowseq)) \o S_NL \o RowsText(cells, Tail(rowseq))

TableText(cells) == S_TABLE \o S_NL \o RowsText(cells, Sorted(RowKeys(cells)))

\* line 88: "text": table_text.strip()
RenderTable(cells) == Strip(TableText(cells))

\* lines 71-89: table_snippets
TableSnippet(t) ==
    [text |-> RenderTable(t.cells), page |-> FirstRegionPage(t.bounding_regions)]

TableSnippets(res) == [i \in 1..Len(res.tables) |-> TableSnippet(res.tables[i])]

\* lines 97-103: f"{key}: {val}", None rendered by str()
Fmt(x) == IF x = None THEN S_NONE ELSE x[1]

KvPair(kv) ==
    [text |-> Fmt(IF kv.key # None THEN kv.key[1].content ELSE None) \o S_COLON
                \o Fmt(IF kv.value # None THEN kv.value[1].content ELSE None),
     page |-> IF kv.key # None /\ kv.key[1].bounding_regions # <<>>
              THEN Some(kv.key[1].bounding_regions[1]) ELSE None]

KvPairs(res) ==
    [i \in 1..Len(res.key_value_pairs) |-> KvPair(res.key_value_pairs[i])]

\* lines 115-117: "\n".join([x["text"] for x in items if x["page"] == page_num])
TextsOnPageOrNone(items, page_num) ==
    LET on == SelectSeq(items, LAMBDA x : x.page = Some(page_num) \/ x.page = None)
    IN  Join(S_NL, [i \in 1..Len(on) |-> on[i].text])
TextsOnPage(items, page_num) ==
    LET on == SelectSeq(items, LAMBDA x : x.page = Some(page_num))
    IN  Join(S_NL, [i \in 1..Len(on) |-> on[i].text])

\* lines 112-133: the block of one page before the final strip
BlockText(res, page_num, base) ==
    LET para_text == TextsOnPage(Paragraphs(res), page_num)
        tbl_text == TextsOnPage(TableSnippets(res), page_num)
        kv_text == TextsOnPage(KvPairs(res), page_num)
        b0 == S_PAGE \o Digits(page_num) \o S_NL \o base
        b1 == IF Strip(para_text) # <<>>
              THEN b0 \o S_NLNL \o S_PARAGRAPHS \o S_NL \o para_text ELSE b0
        b2 == IF Strip(tbl_text) # <<>> THEN b1 \o S_NLNL \o tbl_text ELSE b1
        b3 == IF Strip(kv_text) # <<>>
              THEN b2 \o S_NLNL \o S_KV \o S_NL \o kv_text ELSE b2
    IN  b3

\* lines 109-138: page_blocks, one per entry of page_text_map in its order
PageBlocksWithText(res) ==
    LET m == SelectSeq(PageTextMap(res), LAMBDA e : e.val # <<>>)
    IN  [i \in 1..Len(m) |->
            [page |-> m[i].key, text |-> Strip(BlockText(res, m[i].key, m[i].val))]]
PageBlocks(res) ==
    LET m == PageTextMap(res)
    IN  [i \in 1..Len(m) |->
            [page |-> m[i].key, text |-> Strip(BlockText(res, m[i].key, m[i].val))]]

(***************************************************************************)
(* doc_to_chunks, step 6: split_text, one loop iteration per step.         *)
(***************************************************************************)

\* line 146: while len(text) > max_chars
LoopContinuesGe(t, mx) == Len(t) >= mx
LoopContinues(t, mx) == Len(t) > mx

\* lines 147-148: the cut position of one iteration
SplitAtAfterNewline(t, mx) ==
    IF RFindNL(t, mx + 1) # -1 THEN RFindNL(t, mx + 1) + 1 ELSE mx
SplitAt(t, mx) == IF RFindNL(t, mx) # -1 THEN RFindNL(t, mx) ELSE mx

\* line 161: f"{doc_id}-p{block['page']}-c{idx}"
ChunkId(d, page, idx) == d \o S_P \o Digits(page) \o S_C \o Digits(idx)

\* lines 159-167: the chunks of one block, idx from enumerate (0-based)
BlockChunks(d, src, page, subs) ==
    [i \in 1..Len(subs) |->
        [id |-> ChunkId(d, page, i - 1),
         doc_id |-> d,
         source_file |-> src,
         page_number |-> page,
         content |-> subs[i],
         section_title |-> S_PAGETITLE \o Digits(page)]]

\* line 40: chunks = []
StaleChunks == chunks
FreshChunks == <<>>

\* line 145: parts = []
FreshParts == <<>>

EmptyParts(ps) == Cardinality({i \in 1..Len(ps) : ps[i] = <<>>})

\* lines 39-138, then the call of split_text for the first block (line 144)
Build ==
    /\ pc = "start"
    /\ ~LineRaises(result)
    /\ chunks' = FreshChunks
    /\ page_blocks' = PageBlocks(result)
    /\ IF PageBlocks(result) = <<>>
       THEN /\ pc' = "done"
            /\ UNCHANGED <<bi, text, parts>>
       ELSE /\ pc' = "split"
            /\ bi' = 1
            /\ text' = CollapseBlankLines(PageBlocks(result)[1].text)
            /\ parts' = FreshParts
    /\ UNCHANGED <<result, doc_id, source_file, max_chars, run, prev_doc_id, prev_chunks>>
    /\ UNCHANGED exceptChunk

\* lines 40-50: the call ends with the exception of line 50 and returns
\* nothing
BuildRaises ==
    /\ pc = "start"
    /\ LineRaises(result)
    /\ chunks' = FreshChunks
    /\ pc' = "raised"
    /\ UNCHANGED <<result, doc_id, source_file, max_chars, page_blocks, bi, text, parts,
                   run, prev_doc_id, prev_chunks>>
    /\ UNCHANGED exceptChunk

\* lines 146-150: one iteration of the while loop
SplitStep ==
    /\ pc = "split"
    /\ LoopContinues(text, max_chars)
    /\ SplitAt(text, max_chars) # 0 \/ EmptyParts(parts) < MaxStuck
    /\ parts' = Append(parts, Prefix(text, SplitAt(text, max_chars)))
    /\ text' = Suffix(text, SplitAt(text, max_chars))
    /\ UNCHANGED <<result, doc_id, source_file, max_chars, pc, page_blocks, bi,
                   chunks, run, prev_doc_id, prev_chunks>>
    /\ UNCHANGED exceptChunk

\* lines 151-152 and 159-167: the loop ends, the block's chunks are appended,
\* and split_text is called for the next block, or doc_to_chunks returns
SplitEnd ==
    /\ pc = "split"
    /\ ~LoopContinues(text, max_chars)
    /\ chunks' = chunks \o BlockChunks(doc_id, source_file, page_blocks[bi].page,
                                       Append(parts, text))
    /\ IF bi < Len(page_blocks)
       THEN /\ bi' = bi + 1
            /\ text' = CollapseBlankLines(page_blocks[bi + 1].text)
            /\ parts' = FreshParts
            /\ pc' = "split"
       ELSE /\ pc' = "done"
            /\ UNCHANGED <<bi, text, parts>>
    /\ UNCHANGED <<result, doc_id, source_file, max_chars, page_blocks, run,
                   prev_doc_id, prev_chunks>>
    /\ UNCHANGED exceptChunk

\* document ids; one is a prefix of the other and ends like a page suffix
DocIds == {<<"X">>, <<"X", "-", "p", "1">>}

\* A caller (ingest_contract_filelike, reindex_document) calls doc_to_chunks
\* again; what the previous call returned is kept for comparison.
CallAgain ==
    /\ pc = "done"
    /\ run < MaxRuns
    /\ run' = run + 1
    /\ prev_chunks' = chunks
    /\ prev_doc_id' = doc_id
    /\ \E d \in DocIds : doc_id' = d
    /\ pc' = "start"
    /\ UNCHANGED <<result, source_file, max_chars, page_blocks, bi, text, parts, chunks>>
    /\ UNCHANGED exceptChunk

(***************************************************************************)
(* The structural results, document ids and limits the calls are made with.*)
(***************************************************************************)
SeqsUpTo(S, n) == UNION {[1..k -> S] : k \in 0..n}

Page(n, lines) == [page_number |-> n, lines |-> lines]

\* lines with the given contents, and a line without content
Lines(ts) == [i \in 1..Len(ts) |-> [content |-> Some(ts[i])]]
NoContentLine == [content |-> None]

\* pages: without lines, with lines to strip, with empty lines between lines,
\* with a line that has no content
PageChoices ==
    {Page(1, <<>>),
     Page(1, Lines(<<<<"a", " ">>>>)),
     Page(2, Lines(<<<<"b", "c">>>>)),
     Page(2, Lines(<<<<" ", "a">>, <<>>, <<"b", "c">>>>)),
     Page(1, Lines(<<<<"a">>, <<>>, <<>>, <<"b">>>>)),
     Page(3, Lines(<<<<>>, <<"b", "c">>, <<"a">>>>)),
     Page(2, Lines(<<<<"a">>>>) \o <<NoContentLine>>)}

\* results with pages only: every sequence of up to MaxPages pages, page
\* numbers possibly repeated or descending
PlainResults ==
    [pages : SeqsUpTo(PageChoices, MaxPages),
     paragraphs : {<<>>}, tables : {<<>>}, key_value_pairs : {<<>>}]

Para(t, regions) == [content |-> t, bounding_regions |-> regions]
Cell(r, c, t) == [row_index |-> r, column_index |-> c, content |-> t]
Table(cells, regions) == [cells |-> cells, bounding_regions |-> regions]
Kv(k, v, regions) ==
    [key |-> Some([content |-> Some(k), bounding_regions |-> regions]),
     value |-> Some([content |-> Some(v)])]

Grid2x2 ==
    <<Cell(0, 0, <<"A">>), Cell(0, 1, <<"B">>), Cell(1, 0, <<"C">>), Cell(1, 1, <<"D">>)>>

\* results with overlays: paragraphs, tables and key-value pairs on a page of
\* the result, on a page that is not in the result, or on no page
OverlayResults ==
    [pages : {<<Page(1, <<>>)>>, <<Page(2, Lines(<<<<"a">>>>)), Page(1, <<>>)>>},
     paragraphs : {<<>>, <<Para(<<"x">>, <<1>>)>>, <<Para(<<"x">>, <<>>)>>,
                   <<Para(<<"x">>, <<2, 1>>), Para(<<"y">>, <<3>>)>>},
     tables : {<<>>, <<Table(Grid2x2, <<1>>)>>,
               <<Table(<<Cell(0, 0, <<"A">>)>>, <<2>>)>>},
     key_value_pairs : {<<>>, <<Kv(<<"k">>, <<"v">>, <<1>>)>>,
                        <<[key |-> None, value |-> None]>>}]

\* doc_to_chunks is not running
ChunkIdle ==
    /\ result = [pages |-> <<>>, paragraphs |-> <<>>, tables |-> <<>>,
                 key_value_pairs |-> <<>>]
    /\ doc_id = <<>>
    /\ source_file = <<>>
    /\ max_chars = 1
    /\ pc = "idle"
    /\ page_blocks = <<>>
    /\ bi = 0
    /\ text = <<>>
    /\ parts = <<>>
    /\ chunks = <<>>
    /\ run = 0
    /\ prev_doc_id = <<>>
    /\ prev_chunks = <<>>

\* no table is being rendered on its own
TableIdle ==
    /\ tcells = <<>>
    /\ tpc = "idle"
    /\ table_text = <<>>
    /\ first_table_text = <<>>

\* answer_with_search is not running
AnsIdle ==
    /\ question = ""
    /\ chat_history = <<>>
    /\ results = <<>>
    /\ history_text = <<>>
    /\ apc = "idle"
    /\ ai = 0
    /\ context_blocks = <<>>
    /\ citation_blocks = <<>>
    /\ user_prompt = <<>>
    /\ generated = ""
    /\ gen_calls = 0
    /\ ret = <<>>

\* no index operation is running and the index is empty
IdxIdle ==
    /\ index = {}
    /\ iop = "idle"
    /\ ipc = "idle"
    /\ ichunks = <<>>
    /\ idocs = <<>>
    /\ ik = 0
    /\ iret = <<>>
    /\ embed_failed = {}
    /\ upsert_failed = {}
    /\ store_error = FALSE
    /\ rold = {}
    /\ rret = <<>>
    /\ nops = 0

\* the document manager has done nothing: no blob, no indexed chunk
DocIdle ==
    /\ blobs = {}
    /\ dindex = {}
    /\ dop = "idle"
    /\ dn = 0
    /\ nuuid = 0
    /\ overwritten = <<>>

ChunkInit ==
    /\ DocIdle
    /\ TableIdle
    /\ AnsIdle
    /\ IdxIdle
    /\ result \in PlainResults \cup OverlayResults
    /\ doc_id \in DocIds
    /\ source_file = <<"f">>
    /\ max_chars \in 1..MaxMaxChars
    /\ pc = "start"
    /\ page_blocks = <<>>
    /\ bi = 0
    /\ text = <<>>
    /\ parts = <<>>
    /\ chunks = <<>>
    /\ run = 1
    /\ prev_doc_id = <<>>
    /\ prev_chunks = <<>>

ChunkNext == Build \/ BuildRaises \/ SplitStep \/ SplitEnd \/ CallAgain

SpecChunk == ChunkInit /\ [][ChunkNext]_vars

(***************************************************************************)
(* Claims about doc_to_chunks.                                             *)
(***************************************************************************)
ChunksOfPage(p) == SelectSeq(chunks, LAMBDA c : c.page_number = p)

HasBlankRun(t) == CollapseBlankLines(t) # t

SeqRangeOf(q) == {q[i] : i \in 1..Len(q)}

\* C1: every chunk doc_to_chunks has emitted has a content of at most
\* max_chars characters.
C1_ChunkWithinMax ==
    \A i \in 1..Len(chunks) : Len(chunks[i].content) <= max_chars

\* C1 witness: a call has returned several chunks, one of them full, after a
\* cut at a newline and after a hard cut.
C1_Witness ==
    /\ pc = "done"
    /\ Len(chunks) >= 3
    /\ \E i \in 1..Len(chunks) : Len(chunks[i].content) = max_chars
    /\ \E i \in 1..Len(chunks) : chunks[i].content # <<>> /\ Head(chunks[i].content) = NL

\* C7: the identifiers of the chunks of one call are pairwise distinct, and
\* none of them is an identifier the previous call produced for another
\* document id.
C7_UniqueIds ==
    pc # "start" =>
        /\ \A i, j \in 1..Len(chunks) : i # j => chunks[i].id # chunks[j].id
        /\ (run > 1 /\ doc_id # prev_doc_id) =>
               \A i \in 1..Len(chunks) : \A j \in 1..Len(prev_chunks) :
                   chunks[i].id # prev_chunks[j].id

\* C7 witness: the second call, for another document id, has returned the
\* chunks of a result that lists one page number twice.
C7_Witness ==
    /\ pc = "done"
    /\ run = 2
    /\ doc_id # prev_doc_id
    /\ Len(result.pages) = 2
    /\ result.pages[1].page_number = result.pages[2].page_number
    /\ Len(chunks) >= 2
    /\ Len(prev_chunks) >= 2

\* C8: a second call with the same structural result, document id and
\* filename returns the ordered chunk sequence the first call returned.
C8_Deterministic ==
    (pc = "done" /\ run > 1 /\ doc_id = prev_doc_id) => chunks = prev_chunks

\* C8 witness: the second call with the same arguments has returned chunks
\* of two pages.
C8_Witness ==
    /\ pc = "done"
    /\ run = 2
    /\ doc_id = prev_doc_id
    /\ Len(page_blocks) = 2
    /\ Len(chunks) >= 3

\* C9 as stated: a block of exactly max_chars characters yields one chunk,
\* with sub-index 0, and a block one character longer yields exactly two.
C9_Original ==
    pc = "done" =>
        \A b \in 1..Len(page_blocks) :
            LET t == page_blocks[b].text
                cs == ChunksOfPage(page_blocks[b].page)
            IN  /\ Len(t) = max_chars =>
                    /\ Len(cs) = 1
                    /\ cs[1].id = doc_id \o <<"-", "p">> \o Digits(page_blocks[b].page)
                                         \o <<"-", "c", "0">>
                /\ Len(t) = max_chars + 1 => Len(cs) = 2

\* C9 amended: a block of exactly max_chars characters yields one chunk, with
\* sub-index 0; a block one character longer yields exactly two chunks when
\* it holds no run of three or more newlines, and one chunk when it does.
C9_Boundary ==
    pc = "done" =>
        \A b \in 1..Len(page_blocks) :
            LET t == page_blocks[b].text
                cs == ChunksOfPage(page_blocks[b].page)
            IN  /\ Len(t) = max_chars =>
                    /\ Len(cs) = 1
                    /\ cs[1].id = doc_id \o <<"-", "p">> \o Digits(page_blocks[b].page)
                                         \o <<"-", "c", "0">>
                /\ (Len(t) = max_chars + 1 /\ ~HasBlankRun(t)) => Len(cs) = 2
                /\ (Len(t) = max_chars + 1 /\ HasBlankRun(t)) => Len(cs) = 1

\* C9 witness: a call has returned for a result with a block of exactly
\* max_chars characters and a block one character longer.
C9_Witness ==
    /\ pc = "done"
    /\ \E b \in 1..Len(page_blocks) : Len(page_blocks[b].text) = max_chars
    /\ \E b \in 1..Len(page_blocks) :
           /\ Len(page_blocks[b].text) = max_chars + 1
           /\ Len(ChunksOfPage(page_blocks[b].page)) = 2

\* the text of a sequence of texts, one after the other
RECURSIVE Concat(_)
Concat(ts) == IF ts = <<>> THEN <<>> ELSE Head(ts) \o Concat(Tail(ts))

\* the contents of the chunks of page p, one after the other
PageContent(p) ==
    LET cs == ChunksOfPage(p) IN Concat([i \in 1..Len(cs) |-> cs[i].content])

\* sub occurs in s as a contiguous piece
Occurs(sub, s) ==
    \E k \in 0..(Len(s) - Len(sub)) : SubSeq(s, k + 1, k + Len(sub)) = sub

PageNumbers(res) == [i \in 1..Len(res.pages) |-> res.pages[i].page_number]

\* the paragraphs, tables and key-value pairs of a result whose first
\* bounding region is on page p
ItemsReferring(res, p) ==
    Cardinality({i \in 1..Len(res.paragraphs) :
                     res.paragraphs[i].bounding_regions # <<>>
                     /\ res.paragraphs[i].bounding_regions[1] = p})
    + Cardinality({i \in 1..Len(res.tables) :
                     res.tables[i].bounding_regions # <<>>
                     /\ res.tables[i].bounding_regions[1] = p})
    + Cardinality({i \in 1..Len(res.key_value_pairs) :
                     res.key_value_pairs[i].key # None
                     /\ res.key_value_pairs[i].key[1].bounding_regions # <<>>
                     /\ res.key_value_pairs[i].key[1].bounding_regions[1] = p})

\* C11: when doc_to_chunks has returned, every page of the result has at
\* least one chunk; the chunks of a page whose lines are empty start with the
\* page header, which is followed by more text when a paragraph, table or
\* key-value pair refers to the page; a result without pages never raises and
\* returns the empty sequence.
C11_EveryPageHasChunk ==
    /\ pc = "done" =>
           \A i \in 1..Len(result.pages) :
               LET p == result.pages[i].page_number
                   header == <<"P", "A", "G", "E", " ">> \o Digits(p)
               IN  /\ ChunksOfPage(p) # <<>>
                   /\ (\A j \in 1..Len(result.pages) :
                           result.pages[j].page_number = p => result.pages[j].lines = <<>>)
                       => /\ Prefix(PageContent(p), Len(header)) = header
                          /\ ItemsReferring(result, p) > 0
                                 => Len(PageContent(p)) > Len(header)
                          /\ ItemsReferring(result, p) = 0 => PageContent(p) = header
    /\ result.pages = <<>> => (pc # "raised" /\ (pc = "done" => chunks = <<>>))

\* C11 witness: a call has returned the chunks of a page that has no lines
\* and a table, next to a page with lines.
C11_Witness ==
    /\ pc = "done"
    /\ Len(result.pages) = 2
    /\ result.pages[2].lines = <<>>
    /\ result.pages[1].lines # <<>>
    /\ Len(result.tables) = 1
    /\ result.tables[1].bounding_regions = <<result.pages[2].page_number>>
    /\ Occurs(<<"T", "A", "B", "L", "E", ":">>, PageContent(result.pages[2].page_number))

\* C11 witness: a call for a result without pages has returned.
C11_WitnessNoPages ==
    /\ pc = "done"
    /\ result.pages = <<>>
    /\ chunks = <<>>

\* C16: doc_to_chunks never ends with an exception, whatever shape the
\* structural result lacks.
C16_NeverFails == pc # "raised"

\* the page numbers of a sequence, each at the place it is listed first
RECURSIVE DistinctInOrder(_, _)
DistinctInOrder(q, seen) ==
    IF q = <<>> THEN <<>>
    ELSE IF Head(q) \in seen THEN DistinctInOrder(Tail(q), seen)
    ELSE <<Head(q)>> \o DistinctInOrder(Tail(q), seen \cup {Head(q)})

\* the positions in chunks where the chunks of a block start (sub-index 0)
RunStarts ==
    {i \in 1..Len(chunks) :
        chunks[i].id = doc_id \o <<"-", "p">> \o Digits(chunks[i].page_number)
                              \o <<"-", "c", "0">>}

\* the page numbers of the runs of chunks, in the order of the runs
RunPages ==
    LET st == Sorted(RunStarts) IN [k \in 1..Len(st) |-> chunks[st[k]].page_number]

\* every chunk continues the run it is in: same page number, next sub-index
RunsNumbered ==
    \A i \in 1..Len(chunks) :
        /\ \E s \in RunStarts : s <= i
        /\ LET s == CHOOSE s \in RunStarts :
                        s <= i /\ \A u \in RunStarts : u <= i => u <= s
           IN  /\ chunks[i].page_number = chunks[s].page_number
               /\ chunks[i].id = doc_id \o <<"-", "p">> \o Digits(chunks[i].page_number)
                                        \o <<"-", "c">> \o Digits(i - s)

\* C17 as stated: the page numbers of the runs of chunks are the page numbers
\* of the result's pages, page for page in the order of the result.
C17_Original ==
    pc = "done" =>
        /\ RunPages = PageNumbers(result)
        /\ RunsNumbered

\* C17 amended: the page numbers of the runs of chunks are the distinct page
\* numbers of the result, each at the place the result lists it first (never
\* sorted); every chunk is in the run of its page with sub-indices 0, 1, 2,
\* ... in order, and every chunk's page number is a page number of the result.
C17_PageOrder ==
    pc = "done" =>
        /\ RunPages = DistinctInOrder(PageNumbers(result), {})
        /\ RunsNumbered
        /\ \A i \in 1..Len(chunks) :
               \E j \in 1..Len(result.pages) :
                   chunks[i].page_number = result.pages[j].page_number

\* C17 witness: a call has returned for a result whose pages are listed in
\* descending page number, the first of them split into several chunks.
C17_Witness ==
    /\ pc = "done"
    /\ Len(result.pages) = 2
    /\ result.pages[1].page_number > result.pages[2].page_number
    /\ Len(ChunksOfPage(result.pages[1].page_number)) >= 2
    /\ RunPages = PageNumbers(result)

\* the paragraphs, rendered tables and key-value lines of a result that have
\* text, with the page each refers to
OverlayItems(res) ==
    {x \in SeqRangeOf(Paragraphs(res)) \cup SeqRangeOf(TableSnippets(res))
              \cup SeqRangeOf(KvPairs(res)) : Strip(x.text) # <<>>}

\* C18: when doc_to_chunks has returned, the text of a paragraph, rendered
\* table or key-value line occurs in the chunks of a page exactly when the
\* item refers to that page; an item that refers to no page, or to a page
\* that is not in the result, occurs in the chunks of no page.
C18_OverlayOnItsPage ==
    pc = "done" =>
        \A x \in OverlayItems(result) :
            \A b \in 1..Len(page_blocks) :
                Occurs(x.text, PageContent(page_blocks[b].page))
                    <=> (x.page = <<page_blocks[b].page>>)

\* C18 witness: a call has returned for a result of two pages with a
\* paragraph on one of them, a paragraph on a page that is not in the result,
\* a table on the other page and a key-value pair that refers to no page.
C18_Witness ==
    /\ pc = "done"
    /\ Len(page_blocks) = 2
    /\ Len(result.paragraphs) = 2
    /\ result.paragraphs[2].bounding_regions = <<3>>
    /\ Occurs(result.paragraphs[1].content, PageContent(2))
    /\ Len(result.tables) = 1
    /\ Occurs(<<"T", "A", "B", "L", "E", ":">>, PageContent(1))
    /\ Len(result.key_value_pairs) = 1
    /\ result.key_value_pairs[1].key = None

\* C19: every iteration of the split loop leaves a shorter remaining text.
C19_SplitMakesProgress == [][SplitStep => Len(text') < Len(text)]_vars

\* C20: while a block is split, the parts cut so far followed by the
\* remaining text are the blank-line-normalized block text; when doc_to_chunks
\* has returned, the contents of the chunks of every page, one after the
\* other in split order, are the blank-line-normalized text of its block.
C20_SplitLossless ==
    /\ pc = "split" =>
           Concat(parts) \o text = CollapseBlankLines(page_blocks[bi].text)
    /\ pc = "done" =>
           \A b \in 1..Len(page_blocks) :
               PageContent(page_blocks[b].page) = CollapseBlankLines(page_blocks[b].text)

\* C20 witness: a call has returned for a block that held a run of three
\* newlines and was cut, at a newline, into three chunks or more.
C20_Witness ==
    /\ pc = "done"
    /\ \E b \in 1..Len(page_blocks) :
           LET cs == ChunksOfPage(page_blocks[b].page)
           IN  /\ HasBlankRun(page_blocks[b].text)
               /\ Len(cs) >= 3
               /\ \E i \in 2..Len(cs) : cs[i].content # <<>> /\ Head(cs[i].content) = NL

(***************************************************************************)
(* Table rendering (lines 74-88) applied to listings of a sparse grid.     *)
(***************************************************************************)
CellTexts == {<<>>, <<"A">>, <<"B", " ">>}

GridCells == [row_index : {0, 2}, column_index : {1, 3}, content : CellTexts]

\* listings of up to MaxCells cells, no two at one address
CellListings ==
    {l \in SeqsUpTo(GridCells, MaxCells) :
        \A i, j \in 1..Len(l) :
            (i # j) => (l[i].row_index # l[j].row_index
                          \/ l[i].column_index # l[j].column_index)}

Swap(l, i) ==
    [j \in 1..Len(l) |-> IF j = i THEN l[i + 1] ELSE IF j = i + 1 THEN l[i] ELSE l[j]]

\* the analysis result lists the cells of a table; the table is rendered
RenderListed ==
    /\ tpc = "start"
    /\ table_text' = RenderTable(tcells)
    /\ first_table_text' = RenderTable(tcells)
    /\ tpc' = "rendered"
    /\ UNCHANGED tcells
    /\ UNCHANGED exceptTable

\* the same cells listed in another order are rendered
RenderRelisted ==
    /\ tpc = "rendered"
    /\ \E i \in 1..(Len(tcells) - 1) :
           /\ tcells' = Swap(tcells, i)
           /\ table_text' = RenderTable(Swap(tcells, i))
    /\ UNCHANGED <<tpc, first_table_text>>
    /\ UNCHANGED exceptTable

TableInit ==
    /\ DocIdle
    /\ ChunkIdle
    /\ AnsIdle
    /\ IdxIdle
    /\ tcells \in CellListings
    /\ tpc = "start"
    /\ table_text = <<>>
    /\ first_table_text = <<>>

TableNext == RenderListed \/ RenderRelisted

SpecTable == TableInit /\ [][TableNext]_vars

\* The k-th smallest element of a set of integers.
NthSmallest(S, k) == CHOOSE x \in S : Cardinality({y \in S : y < x}) = k - 1

\* The text of a table as the claim words it: the label line, then one line
\* per row in ascending row index, the row's cell texts in ascending column
\* index joined by " | ", lines joined by newlines.
ClaimedRow(cells, r) ==
    LET cols == {c.column_index : c \in {d \in cells : d.row_index = r}}
        at(k) == (CHOOSE c \in cells :
                      c.row_index = r /\ c.column_index = NthSmallest(cols, k)).content
    IN  Join(<<" ", "|", " ">>, [k \in 1..Cardinality(cols) |-> at(k)])

ClaimedTable(cells) ==
    LET rows == {c.row_index : c \in cells}
    IN  Join(<<NL>>, <<<<"T", "A", "B", "L", "E", ":">>>>
                       \o [k \in 1..Cardinality(rows) |->
                              ClaimedRow(cells, NthSmallest(rows, k))])

CellSet(l) == {l[i] : i \in 1..Len(l)}

\* C10 as stated: the rendered text of a table is the label line and one
\* " | "-joined line per row, in ascending row and column index, whatever the
\* order the cells are listed in.
C10_Original ==
    tpc = "rendered" =>
        /\ table_text = ClaimedTable(CellSet(tcells))
        /\ table_text = first_table_text

\* C10 amended: the rendered text is that text with the whitespace at its end
\* removed (the newline after the last row, and the blanks and empty cells
\* the last row ends with), whatever the order the cells are listed in.
C10_TableRendering ==
    tpc = "rendered" =>
        /\ table_text = RStrip(ClaimedTable(CellSet(tcells)))
        /\ table_text = first_table_text

\* C10 witness: a table of two rows has been rendered from a listing that is
\* in neither row nor column order, and its last row ends with a letter.
C10_Witness ==
    /\ tpc = "rendered"
    /\ Len(tcells) = 3
    /\ tcells[1].row_index = 2 /\ tcells[1].column_index = 3
    /\ tcells[2].row_index = 2 /\ tcells[2].column_index = 1
    /\ tcells[3].row_index = 0
    /\ tcells[1].content = <<"A">>
    /\ table_text = ClaimedTable(CellSet(tcells))

(***************************************************************************)
(* What the search returns, what the chat holds, what generation returns.  *)
(***************************************************************************)
\* chunks as doc_to_chunks emits them (normalize_layout.py lines 160-167)
SourceChunks ==
    {[id |-> "X-p1-c0", doc_id |-> "X", source_file |-> "lease.pdf", page_number |-> 1,
      content |-> "rent", section_title |-> "Page 1"],
     [id |-> "X-p1-c1", doc_id |-> "X", source_file |-> "lease.pdf", page_number |-> 1,
      content |-> "term", section_title |-> "Page 1"],
     [id |-> "Y-p2-c0", doc_id |-> "Y", source_file |-> "annex.pdf", page_number |-> 2,
      content |-> "owner", section_title |-> "Page 2"]}

\* search_indexer.py lines 147-164: the fields of the search document that
\* index_chunks fills from a chunk (the entity fields and tags stay empty, the
\* embedding is not retrievable as text)
IndexedDocument(ch) ==
    [id |-> ch.id, content |-> ch.content, doc_id |-> ch.doc_id,
     page_number |-> ch.page_number, section_title |-> ch.section_title]

\* the score the store gives a document for the question
ScoreOf(doc) == IF doc.doc_id = "X" THEN 3 ELSE 1

\* a search hit: the stored fields of a document and "@search.score"
Hit(doc) ==
    [id |-> doc.id, content |-> doc.content, doc_id |-> doc.doc_id,
     page_number |-> doc.page_number, section_title |-> doc.section_title,
     score |-> ScoreOf(doc)]

\* search documents: the hits for the documents index_chunks stored
HitPool == {Hit(IndexedDocument(ch)) : ch \in SourceChunks}

\* result lists of up to MaxHits distinct documents, in the order of the store
HitSeqs ==
    {l \in SeqsUpTo(HitPool, MaxHits) : \A i, j \in 1..Len(l) : i # j => l[i] # l[j]}

Histories ==
    {<<>>,
     <<[role |-> "user", content |-> "q"]>>,
     <<[role |-> "user", content |-> "q0"], [role |-> "assistant", content |-> "a0"],
       [role |-> "user", content |-> "q"]>>,
     <<[role |-> "assistant", content |-> ""], [content |-> "q"]>>}

Generations == {"the rent is 10", "the rent is 10 SOURCES: [1]"}

(***************************************************************************)
(* answer_with_search (src/src/query/search_query.py).                     *)
(* A rendered text is a sequence of tokens: [lit |-> s] for a literal or   *)
(* an interpolated string, and a record of the interpolated fields for a   *)
(* context block or a citation line.                                       *)
(***************************************************************************)
Lit(str) == [lit |-> str]

\* sep.join(items) where every item renders as one token
JoinTokens(sep, items) == Join(<<Lit(sep)>>, [i \in 1..Len(items) |-> <<items[i]>>])

\* c.get(f): an optional value
Get(c, f) == IF f \in DOMAIN c THEN Some(c[f]) ELSE None

\* msg.get(f, default)
GetOr(c, f, default) == IF f \in DOMAIN c THEN c[f] ELSE default

\* str.upper() on the roles of a chat
Upper(role) ==
    CASE role = "user" -> "USER"
      [] role = "assistant" -> "ASSISTANT"
      [] role = "system" -> "SYSTEM"
      [] OTHER -> role

\* lines 154-160: one line per message that has content
RECURSIVE HistoryLines(_)
HistoryLines(msgs) ==
    IF msgs = <<>> THEN <<>>
    ELSE LET role == GetOr(Head(msgs), "role", "user")
             content == GetOr(Head(msgs), "content", "")
         IN  (IF content = "" THEN <<>>
              ELSE <<[role |-> Upper(role), content |-> content]>>)
                 \o HistoryLines(Tail(msgs))

\* line 161: "\n".join(history_lines)
format_last_turn_only(msgs) ==
    JoinTokens("\n", IF HistoryLines(msgs) = <<>> THEN <<>>
                     ELSE <<HistoryLines(msgs)[Len(HistoryLines(msgs))]>>)
format_chat_history(msgs) == JoinTokens("\n", HistoryLines(msgs))

\* line 177: if not results
NoHitsNever(rs) == FALSE
NoHits(rs) == rs = <<>>

\* line 179: the answer returned when there are no results
NOT_FOUND == "No relevant information was found in the indexed documents."

\* line 186: for i, c in enumerate(results, start=1)
HitAtReversed(rs, i) == rs[Len(rs) + 1 - i]
HitAt(rs, i) == rs[i]

\* lines 187-189: f"[Chunk {i}] (page=...) (score=...)\n{content}"
ContextBlock(i, c) ==
    [chunk |-> i, page |-> Get(c, "page_number"), score |-> c.score,
     content |-> c.content]

\* lines 190-192: f"[{i}] {filename} - Page {page} - Chunk {id} - Score {score}"
CitationBlock(i, c) ==
    [ordinal |-> i, filename |-> Get(c, "filename"), page |-> Get(c, "page_number"),
     id |-> Get(c, "id"), score |-> c.score]

\* lines 219-220: final_answer = content; final_answer += "\n\nSOURCES:\n" + citation_text
FinalAnswerUnlessCited(gen, cites) ==
    IF gen = "the rent is 10 SOURCES: [1]" THEN <<Lit(gen)>>
    ELSE <<Lit(gen), Lit("\n\nSOURCES:\n")>> \o JoinTokens("\n", cites)
FinalAnswer(gen, cites) ==
    <<Lit(gen), Lit("\n\nSOURCES:\n")>> \o JoinTokens("\n", cites)

\* line 174: embed_query or search_client.search raises; nothing catches it
AnsSearchRaises ==
    /\ apc = "start"
    /\ apc' = "raised"
    /\ UNCHANGED <<question, chat_history, results, history_text, ai, context_blocks,
                   citation_blocks, user_prompt, generated, gen_calls, ret>>
    /\ UNCHANGED exceptAns

\* lines 174-181: retrieval, the history text, and the return without hits
AnsSearch ==
    /\ apc = "start"
    /\ \E rs \in HitSeqs :
        /\ results' = rs
        /\ IF NoHits(rs)
           THEN /\ ret' = [answer |-> <<Lit(NOT_FOUND)>>, results |-> <<>>]
                /\ apc' = "done"
           ELSE /\ apc' = "loop"
                /\ UNCHANGED ret
    /\ history_text' = format_chat_history(chat_history)
    /\ ai' = 1
    /\ context_blocks' = <<>>
    /\ citation_blocks' = <<>>
    /\ UNCHANGED <<question, chat_history, user_prompt, generated, gen_calls>>
    /\ UNCHANGED exceptAns

\* lines 186-192: one iteration of the loop over the results
AnsRender ==
    /\ apc = "loop"
    /\ ai <= Len(results)
    /\ context_blocks' = Append(context_blocks, ContextBlock(ai, HitAt(results, ai)))
    /\ citation_blocks' = Append(citation_blocks, CitationBlock(ai, HitAt(results, ai)))
    /\ ai' = ai + 1
    /\ UNCHANGED <<question, chat_history, results, history_text, apc, user_prompt,
                   generated, gen_calls, ret>>
    /\ UNCHANGED exceptAns

\* lines 194-219: the prompt and the generation call
AnsGenerate ==
    /\ apc = "loop"
    /\ ai > Len(results)
    /\ user_prompt' =
           <<Lit("User question:"), Lit(question),
             Lit("Conversation so far (use only for context of the ask, not as a knowledge base):")>>
           \o (IF history_text # <<>> THEN history_text ELSE <<Lit("N/A")>>)
           \o <<Lit("Here are the retrieved chunks. ONLY use information found inside them:")>>
           \o JoinTokens("\n\n", context_blocks)
           \o <<Lit("Now answer the user question strictly based on the above chunks.")>>
    /\ gen_calls' = gen_calls + 1
    /\ \E g \in Generations : generated' = g
    /\ apc' = "generated"
    /\ UNCHANGED <<question, chat_history, results, history_text, ai, context_blocks,
                   citation_blocks, ret>>
    /\ UNCHANGED exceptAns

\* lines 211-220: the generation call raises, or its message has no content
\* and line 220 raises TypeError; nothing catches either, the call is not
\* repeated
AnsGenerateRaises ==
    /\ apc = "loop"
    /\ ai > Len(results)
    /\ gen_calls' = gen_calls + 1
    /\ apc' = "raised"
    /\ UNCHANGED <<question, chat_history, results, history_text, ai, context_blocks,
                   citation_blocks, user_prompt, generated, ret>>
    /\ UNCHANGED exceptAns

\* lines 219-222: the citation block is appended and the dict returned
AnsReturn ==
    /\ apc = "generated"
    /\ ret' = [answer |-> FinalAnswer(generated, citation_blocks),
               results |-> results]
    /\ apc' = "done"
    /\ UNCHANGED <<question, chat_history, results, history_text, ai, context_blocks,
                   citation_blocks, user_prompt, generated, gen_calls>>
    /\ UNCHANGED exceptAns

AnsInit ==
    /\ DocIdle
    /\ ChunkIdle
    /\ TableIdle
    /\ IdxIdle
    /\ question = "q"
    /\ chat_history \in Histories
    /\ results = <<>>
    /\ history_text = <<>>
    /\ apc = "start"
    /\ ai = 0
    /\ context_blocks = <<>>
    /\ citation_blocks = <<>>
    /\ user_prompt = <<>>
    /\ generated = ""
    /\ gen_calls = 0
    /\ ret = <<>>

AnsNext ==
    \/ AnsSearch \/ AnsSearchRaises \/ AnsRender \/ AnsGenerate \/ AnsGenerateRaises
    \/ AnsReturn

SpecAnswer == AnsInit /\ [][AnsNext]_vars

(***************************************************************************)
(* Claims about answer_with_search.                                        *)
(***************************************************************************)
\* the citation lines of a rendered answer, and the context blocks of a prompt
CitationsOf(tokens) == SelectSeq(tokens, LAMBDA t : "ordinal" \in DOMAIN t)
ContextOf(tokens) == SelectSeq(tokens, LAMBDA t : "chunk" \in DOMAIN t)

\* C2: an answer produced from N >= 1 hits carries exactly N citation lines
\* and its prompt N context blocks, both numbered 1..N, and citation i names
\* the chunk id of the hit whose content is context block i.
C2_CitationIntegrity ==
    (apc = "done" /\ Len(results) >= 1) =>
        LET cites == CitationsOf(ret.answer)
            ctx == ContextOf(user_prompt)
        IN  /\ Len(cites) = Len(results)
            /\ Len(ctx) = Len(results)
            /\ \A i \in 1..Len(results) :
                   /\ cites[i].ordinal = i
                   /\ ctx[i].chunk = i
                   /\ cites[i].id = Some(results[i].id)
                   /\ ctx[i].content = results[i].content
                   /\ cites[i] = citation_blocks[i]
                   /\ ret.results[i] = results[i]

\* C2 witness: an answer has been returned for three hits.
C2_Witness ==
    /\ apc = "done"
    /\ Len(results) = 3
    /\ Len(CitationsOf(ret.answer)) = 3

\* C3 as stated: without hits the answer is the literal "not found in
\* retrieved contract text" message, with no citation and no generation call.
C3_Original ==
    (apc = "done" /\ results = <<>>) =>
        /\ ret.answer = <<Lit("not found in retrieved contract text")>>
        /\ CitationsOf(ret.answer) = <<>>
        /\ gen_calls = 0

\* C3 amended: without hits the answer is the fixed message "No relevant
\* information was found in the indexed documents.", with an empty result
\* list, no citation and no generation call.
C3_NoHitsNoGeneration ==
    (apc = "done" /\ results = <<>>) =>
        /\ ret.answer = <<Lit("No relevant information was found in the indexed documents.")>>
        /\ ret.results = <<>>
        /\ CitationsOf(ret.answer) = <<>>
        /\ gen_calls = 0
        /\ user_prompt = <<>>

\* C3 witness: a call with a chat history has returned without hits.
C3_Witness ==
    /\ apc = "done"
    /\ results = <<>>
    /\ chat_history # <<>>
    /\ ret.results = <<>>

\* C12: an answer returned for one hit or more is the generated text, then
\* the SOURCES heading, then one citation line per hit, whether or not the
\* generated text holds a sources section of its own; an answer returned
\* without hits holds neither the heading nor a citation line.
C12_SourcesAppended ==
    /\ (apc = "done" /\ results # <<>>) =>
           /\ Len(ret.answer) >= 3
           /\ ret.answer[1] = [lit |-> generated]
           /\ ret.answer[2] = [lit |-> "\n\nSOURCES:\n"]
           /\ CitationsOf(SubSeq(ret.answer, 3, Len(ret.answer))) = citation_blocks
           /\ Len(citation_blocks) = Len(results)
           /\ \A i \in 3..Len(ret.answer) :
                  "lit" \in DOMAIN ret.answer[i] => ret.answer[i].lit = "\n"
           /\ gen_calls = 1
    /\ (apc = "done" /\ results = <<>>) =>
           /\ \A i \in 1..Len(ret.answer) : ret.answer[i] # [lit |-> "\n\nSOURCES:\n"]
           /\ CitationsOf(ret.answer) = <<>>

\* C12 witness: an answer has been returned for two hits and a generated
\* text that holds a sources section of its own.
C12_Witness ==
    /\ apc = "done"
    /\ Len(results) = 2
    /\ generated = "the rent is 10 SOURCES: [1]"
    /\ ret.answer[2] = [lit |-> "\n\nSOURCES:\n"]

\* the chunk a hit was indexed from
SourceChunkOf(id) == CHOOSE ch \in SourceChunks : ch.id = id

\* C13: every citation line of a returned answer shows the source filename,
\* page number and identifier of the chunk its hit was indexed from, and the
\* score of the hit.
C13_CitationCarriesFilename ==
    (apc = "done" /\ results # <<>>) =>
        \A i \in 1..Len(results) :
            LET ch == SourceChunkOf(results[i].id)
                cite == CitationsOf(ret.answer)[i]
            IN  /\ cite.filename = <<ch.source_file>>
                /\ cite.page = <<ch.page_number>>
                /\ cite.id = <<ch.id>>
                /\ cite.score = results[i].score

\* the prior turns as they are rendered in a prompt
HistoryOf(tokens) == SelectSeq(tokens, LAMBDA t : "role" \in DOMAIN t)

HistoryHeading ==
    [lit |-> "Conversation so far (use only for context of the ask, not as a knowledge base):"]

HeadingAt(tokens) == {i \in 1..Len(tokens) : tokens[i] = HistoryHeading}

\* a turn tagged with its role in upper case, USER when it names none
Tagged(msg) ==
    [role |-> Upper(IF "role" \in DOMAIN msg THEN msg.role ELSE "user"),
     content |-> IF "content" \in DOMAIN msg THEN msg.content ELSE ""]

WithContent(msgs) ==
    SelectSeq(msgs, LAMBDA msg : "content" \in DOMAIN msg /\ msg.content # "")

\* C15 as stated: the prompt sent to generation holds every supplied prior
\* turn, tagged with its role, in the given order, and no history section
\* when there is no prior turn.
C15_Original ==
    (apc \in {"generated", "done"} /\ results # <<>>) =>
        /\ HistoryOf(user_prompt) = [i \in 1..Len(chat_history) |-> Tagged(chat_history[i])]
        /\ chat_history = <<>> => HeadingAt(user_prompt) = {}

\* C15 amended: the prompt sent to generation holds the prior turns that have
\* content, tagged with their role, in the given order; the history heading
\* is always there, followed by N/A when no prior turn has content.
C15_HistoryRendering ==
    (apc \in {"generated", "done"} /\ results # <<>>) =>
        /\ HistoryOf(user_prompt)
               = [i \in 1..Len(WithContent(chat_history)) |->
                      Tagged(WithContent(chat_history)[i])]
        /\ Cardinality(HeadingAt(user_prompt)) = 1
        /\ \A i \in HeadingAt(user_prompt) :
               IF WithContent(chat_history) = <<>>
               THEN user_prompt[i + 1] = [lit |-> "N/A"]
               ELSE user_prompt[i + 1] = Tagged(WithContent(chat_history)[1])

\* C15 witness: a prompt has been sent for a chat of three turns, of the user
\* and of the assistant.
C15_Witness ==
    /\ apc = "done"
    /\ results # <<>>
    /\ Len(chat_history) = 3
    /\ Len(HistoryOf(user_prompt)) = 3
    /\ HistoryOf(user_prompt)[2].role = "ASSISTANT"

(***************************************************************************)
(* The search index and its writers: index_chunks, delete_all_documents    *)
(* (src/src/indexer/search_indexer.py) and reindex_document                *)
(* (src/src/services/document_manager.py).                                 *)
(* A chunk is [id, doc_id, ver]: the k-th chunk of a document is           *)
(* id = <<doc_id, k>>, and ver tells the analysis that produced it.        *)
(***************************************************************************)
IndexedDocIds == {"X", "Y"}

\* the chunks doc_to_chunks returns for one analysis: n chunks, numbered in order
AnalysisChunks(d, n, v) == [k \in 1..n |-> [id |-> <<d, k>>, doc_id |-> d, ver |-> v]]

\* lines 147-164: the search document of a chunk
SearchDoc(ch) == [id |-> ch.id, doc_id |-> ch.doc_id, ver |-> ch.ver]

\* upload_documents: a document replaces the one stored under its id
Upsert(idx, docs) ==
    {e \in idx : \A d \in docs : d.id # e.id} \cup docs

SeqRange(q) == {q[i] : i \in 1..Len(q)}

DocsOf(idx, d) == {e \in idx : e.doc_id = d}

\* the value a function returns when it ends without a return statement
ReturnsNone == None

\* a caller passes a list of chunks to index_chunks (line 134-138)
EnterIndexChunks(chs) ==
    /\ ichunks' = chs
    /\ idocs' = <<>>
    /\ ik' = 1
    /\ ipc' = "embed"
    /\ iret' = <<>>
    /\ embed_failed' = {}
    /\ upsert_failed' = {}

\* index_all_documents (index_contract.py line 66) and upload_and_index
\* (document_manager.py line 64) index the chunks of a fresh analysis
CallIndexChunks ==
    /\ iop = "idle"
    /\ nops < MaxOps
    /\ \E d \in IndexedDocIds, n \in 0..MaxChunks :
           EnterIndexChunks(AnalysisChunks(d, n, nops + 1))
    /\ iop' = "index_chunks"
    /\ nops' = nops + 1
    /\ store_error' = FALSE
    /\ UNCHANGED <<index, rold, rret>>
    /\ UNCHANGED exceptIdx

\* lines 140-165: one iteration of the loop, the embedding call succeeds
EmbedChunk ==
    /\ ipc = "embed"
    /\ ik <= Len(ichunks)
    /\ idocs' = Append(idocs, SearchDoc(ichunks[ik]))
    /\ ik' = ik + 1
    /\ UNCHANGED <<index, iop, ipc, ichunks, iret, embed_failed, upsert_failed,
                   store_error, rold, rret, nops>>
    /\ UNCHANGED exceptIdx

\* line 145: the embedding call raises; nothing catches it in index_chunks,
\* nor in reindex_document
EmbedRaises ==
    /\ ipc = "embed"
    /\ ik <= Len(ichunks)
    /\ embed_failed' = {ichunks[ik].id}
    /\ ipc' = "raised"
    /\ UNCHANGED <<index, iop, ichunks, idocs, ik, iret, upsert_failed, store_error,
                   rold, rret, nops>>
    /\ UNCHANGED exceptIdx

\* lines 167-177: nothing to index, or the upload: the store reports for each
\* document whether it succeeded; the failures are printed
UploadDocs ==
    /\ ipc = "embed"
    /\ ik > Len(ichunks)
    /\ IF idocs = <<>>
       THEN UNCHANGED <<index, upsert_failed>>
       ELSE \E failed \in SUBSET {d.id : d \in SeqRange(idocs)} :
               /\ index' = Upsert(index, {d \in SeqRange(idocs) : d.id \notin failed})
               /\ upsert_failed' = failed
    /\ iret' = ReturnsNone
    /\ ipc' = "returned"
    /\ UNCHANGED <<iop, ichunks, idocs, ik, embed_failed, store_error, rold, rret, nops>>
    /\ UNCHANGED exceptIdx

\* line 172: upload_documents raises (the store cannot be reached or rejects
\* the request); nothing catches it in index_chunks, nor in its callers
UploadRaises ==
    /\ ipc = "embed"
    /\ ik > Len(ichunks)
    /\ idocs # <<>>
    /\ store_error' = TRUE
    /\ ipc' = "raised"
    /\ UNCHANGED <<index, iop, ichunks, idocs, ik, iret, embed_failed, upsert_failed,
                   rold, rret, nops>>
    /\ UNCHANGED exceptIdx

\* search(search_text="*", top=...): a page of at most top documents
SearchPages(idx, top) ==
    {pg \in SUBSET idx :
        Cardinality(pg) = IF Cardinality(idx) < top THEN Cardinality(idx) ELSE top}

\* lines 180-201: delete_all_documents. A store error is caught and printed.
DeleteAll ==
    /\ iop = "idle"
    /\ nops < MaxOps
    /\ \/ \E pg \in SearchPages(index, SearchTop) :
             /\ index' = index \ pg
             /\ store_error' = FALSE
       \/ /\ store_error' = TRUE
          /\ UNCHANGED index
    /\ iop' = "delete_all"
    /\ ipc' = "returned"
    /\ iret' = ReturnsNone
    /\ nops' = nops + 1
    /\ UNCHANGED <<ichunks, idocs, ik, embed_failed, upsert_failed, rold, rret>>
    /\ UNCHANGED exceptIdx

\* delete_documents_by_doc_id: the chunks of a document id are removed
delete_documents_by_doc_id(idx, d) == {e \in idx : e.doc_id # d}

\* reindex_document lines 72-78: a new analysis, its chunks, the delete, and
\* the call of index_chunks
ReindexStart ==
    /\ iop = "idle"
    /\ nops < MaxOps
    /\ \E d \in IndexedDocIds, n \in 0..MaxChunks :
           /\ EnterIndexChunks(AnalysisChunks(d, n, nops + 1))
           /\ rold' = DocsOf(index, d)
           /\ index' = delete_documents_by_doc_id(index, d)
    /\ iop' = "reindex"
    /\ nops' = nops + 1
    /\ rret' = <<>>
    /\ store_error' = FALSE
    /\ UNCHANGED exceptIdx

\* reindex_document line 79: return len(chunks)
ReindexReturn ==
    /\ iop = "reindex"
    /\ ipc = "returned"
    /\ rret' = Some(Len(ichunks))
    /\ ipc' = "reindexed"
    /\ UNCHANGED <<index, iop, ichunks, idocs, ik, iret, embed_failed, upsert_failed,
                   store_error, rold, nops>>
    /\ UNCHANGED exceptIdx

\* the operation is over (returned or raised); the caller goes on
OperationOver ==
    /\ \/ iop \in {"index_chunks", "delete_all"} /\ ipc \in {"returned", "raised"}
       \/ iop = "reindex" /\ ipc \in {"reindexed", "raised"}
    /\ iop' = "idle"
    /\ ipc' = "idle"
    /\ UNCHANGED <<index, ichunks, idocs, ik, iret, embed_failed, upsert_failed,
                   store_error, rold, rret, nops>>
    /\ UNCHANGED exceptIdx

IdxInit ==
    /\ DocIdle
    /\ ChunkIdle
    /\ TableIdle
    /\ AnsIdle
    /\ IdxIdle

IdxNext ==
    \/ CallIndexChunks \/ EmbedChunk \/ EmbedRaises \/ UploadDocs \/ UploadRaises
    \/ DeleteAll \/ ReindexStart \/ ReindexReturn \/ OperationOver

SpecIndex == IdxInit /\ [][IdxNext]_vars

(***************************************************************************)
(* Claims about the index writers.                                         *)
(***************************************************************************)
\* C4: once reindex_document has returned for a document id that had indexed
\* chunks, the chunks of that id in the index are exactly the chunks of the
\* new analysis.
C4_ReindexReplaces ==
    (iop = "reindex" /\ ipc = "reindexed" /\ rold # {}) =>
        DocsOf(index, (CHOOSE e \in rold : TRUE).doc_id)
            = {SearchDoc(c) : c \in SeqRange(ichunks)}

\* C5: when index_chunks is over, every chunk of the batch that did not fail
\* to embed or upsert is in the index, and the identifiers of the failed
\* chunks have been returned to the caller.
C5_FailuresIsolatedAndReported ==
    (ipc \in {"returned", "raised"} /\ iop \in {"index_chunks", "reindex"}) =>
        LET failed == embed_failed \cup upsert_failed
        IN  /\ \A c \in SeqRange(ichunks) : c.id \notin failed => SearchDoc(c) \in index
            /\ failed # {} => (iret # None /\ iret[1].failed_ids = failed)

\* C6: when delete_all_documents has returned without a store error, the
\* index is empty.
C6_DeleteAllEmpties ==
    (iop = "delete_all" /\ ipc = "returned" /\ ~store_error) => index = {}

\* C14: an operation during which a call of the store or of the embedding
\* service failed does not return normally.
C14_FailureSurfaced ==
    /\ (iop \in {"index_chunks", "reindex"} /\ (store_error \/ embed_failed # {}))
           => ipc \notin {"returned", "reindexed"}
    /\ (iop = "delete_all" /\ store_error) => ipc # "returned"

(***************************************************************************)
(* The document manager (src/src/services/document_manager.py) over blob   *)
(* storage (src/src/storage_client.py) and the search index. Every         *)
(* operation is taken as a whole and completes without raising.            *)
(* A blob is [name, meta]: meta is the doc_id of its metadata, if any.     *)
(***************************************************************************)
Filenames == {"a.pdf", "b.pdf"}

\* str(uuid.uuid4()): an identifier no earlier call returned
Uuid(k) == <<"uuid", k>>

\* storage_client.py lines 39-42: upload_blob(overwrite=True, metadata=...)
\* replaces the blob of that name, or adds it
upload_pdf_fileobj(bs, filename, d) ==
    {b \in bs : b.name # filename} \cup {[name |-> filename, meta |-> Some(d)]}

\* storage_client.py lines 108-110
delete_blob(bs, blob_name) == {b \in bs : b.name # blob_name}

\* storage_client.py lines 113-115
set_blob_metadata(bs, blob_name, d) ==
    {b \in bs : b.name # blob_name} \cup {[name |-> blob_name, meta |-> Some(d)]}

\* document_manager.py lines 20-28: the doc_id of the metadata, or a new one
EnsureDocId(meta, fresh) == IF meta # None THEN meta[1] ELSE fresh

\* search_indexer.py lines 134-177 for a call that returns: the documents
\* the store accepted are in the index, the rejected ones are printed
IndexChunksInto(idx, chs, failed) ==
    Upsert(idx, {SearchDoc(c) : c \in {x \in SeqRange(chs) : x.id \notin failed}})

\* document_manager.py lines 59-65 with ingest_contract_filelike
\* (ingest_pipeline.py lines 79-89): a new doc_id, the blob stored under the
\* filename, the analysis chunked and indexed
upload_and_index ==
    /\ dn < MaxOps
    /\ \E filename \in Filenames, n \in 0..MaxChunks :
           LET d == Uuid(nuuid + 1)
               chs == AnalysisChunks(d, n, dn + 1)
               old == {b \in blobs : b.name = filename}
           IN  /\ blobs' = upload_pdf_fileobj(blobs, filename, d)
               /\ overwritten' = IF old = {} THEN None ELSE (CHOOSE b \in old : TRUE).meta
               /\ \E failed \in SUBSET {c.id : c \in SeqRange(chs)} :
                      dindex' = IndexChunksInto(dindex, chs, failed)
    /\ nuuid' = nuuid + 1
    /\ dop' = "upload_and_index"
    /\ dn' = dn + 1
    /\ UNCHANGED exceptDoc

\* document_manager.py lines 68-79 for a blob of the listing: the doc_id is
\* ensured, the new analysis chunked, the chunks of the doc_id deleted and
\* the new ones indexed
reindex_document ==
    /\ dn < MaxOps
    /\ \E b \in blobs, n \in 0..MaxChunks :
           LET d == EnsureDocId(b.meta, Uuid(nuuid + 1))
               chs == AnalysisChunks(d, n, dn + 1)
           IN  /\ blobs' = IF b.meta = None THEN set_blob_metadata(blobs, b.name, d)
                           ELSE blobs
               /\ nuuid' = IF b.meta = None THEN nuuid + 1 ELSE nuuid
               /\ \E failed \in SUBSET {c.id : c \in SeqRange(chs)} :
                      dindex' = IndexChunksInto(delete_documents_by_doc_id(dindex, d),
                                                chs, failed)
    /\ overwritten' = None
    /\ dop' = "reindex_document"
    /\ dn' = dn + 1
    /\ UNCHANGED exceptDoc

\* document_manager.py lines 82-88 for a blob of the listing: the chunks of
\* its doc_id, if it has one, and the blob are deleted
remove_document ==
    /\ dn < MaxOps
    /\ \E b \in blobs :
           /\ dindex' = IF b.meta # None
                        THEN delete_documents_by_doc_id(dindex, b.meta[1]) ELSE dindex
           /\ blobs' = delete_blob(blobs, b.name)
    /\ overwritten' = None
    /\ dop' = "remove_document"
    /\ dn' = dn + 1
    /\ UNCHANGED nuuid
    /\ UNCHANGED exceptDoc

\* storage is empty, or holds a blob stored without metadata (upload_pdf,
\* storage_client.py lines 13-32); nothing is indexed
DocInit ==
    /\ ChunkIdle
    /\ TableIdle
    /\ AnsIdle
    /\ IdxIdle
    /\ blobs \in {{}, {[name |-> "a.pdf", meta |-> None]}}
    /\ dindex = {}
    /\ dop = "idle"
    /\ dn = 0
    /\ nuuid = 0
    /\ overwritten = <<>>

DocNext == upload_and_index \/ reindex_document \/ remove_document

SpecDocs == DocInit /\ [][DocNext]_vars

(***************************************************************************)
(* Claims about the document manager.                                      *)
(***************************************************************************)
\* C21: after any sequence of completed upload_and_index, reindex_document
\* and remove_document calls, every chunk in the index has the doc_id of the
\* metadata of a blob in storage; after an upload under a stored filename no
\* chunk of the overwritten document is left.
C21_NoOrphanChunks ==
    /\ \A e \in dindex : \E b \in blobs : b.meta = <<e.doc_id>>
    /\ (dop = "upload_and_index" /\ overwritten # <<>>) =>
           \A e \in dindex : e.doc_id # overwritten[1]

====
